---- MODULE Spec2Model ----
(***************************************************************************)
(* Batch iteration family of swissknife:                                   *)
(*   swissknife.iterators.arrays.BatchArrayIterator (with IteratorMixin),  *)
(*   swissknife.files.BatchArrayIterator and FilesStream,                  *)
(*   swissknife.iterators.files.FilesIterator,                             *)
(*   swissknife.transform.GeneratorPipeline,                               *)
(* and two helpers next to it:                                             *)
(*   swissknife.notebook.SysPath, swissknife.utils.BatchGenerator.         *)
(***************************************************************************)
EXTENDS Integers, Sequences, FiniteSets, TLC

\* ------------------------------------------------------------------------
\* Bounds of the model
\* ------------------------------------------------------------------------
MaxLen == 4        \* longest input sequence
MaxBatchSize == 3  \* largest batch_size
MaxArrays == 2     \* most sequences passed to one iterator
MaxCalls == 9      \* most next() calls on one iterator
MaxLimit == 15     \* largest `limit` of the numbers() source
MaxCap == 6        \* largest max_iters
MaxSrc == 14       \* most items pulled from an unbounded source
MaxStages == 2     \* most stages in a pipeline
MaxPipeCalls == 8  \* most next() calls on one pipeline
MaxSmallLimit == 4 \* largest `limit` where configure() and add() are driven
MaxCfgCap == 2     \* largest max_iters where configure() is driven
MaxConfigures == 2 \* most configure() calls on one pipeline
MaxAdds == 1       \* most add() calls on one pipeline
MaxPatternLen == 2 \* most extensions in a pattern
MaxDirChanges == 1 \* most files added to or removed from the directory
MaxSysCalls == 5   \* most calls made on SysPath and extend_search_path
MaxExtendArgs == 2 \* most paths passed to one extend()

VARIABLES
    \* ---- swissknife.iterators.arrays.BatchArrayIterator ----
    phase,              \* "new" (no constructor call yet), "ready", "failed"
    ctor_args,          \* arguments of the constructor call
    ctor_error,         \* exception raised by the constructor, or "none"
    arrays,             \* self.arrays
    batch_size,         \* self.batch_size
    infinite,           \* self.infinite
    same_size_batches,  \* self.same_size_batches
    n_batches,          \* self._n
    batch_index,        \* self._batch_index
    epoch_index,        \* self._epoch_index
    last_op,            \* last call made on the iterator: "none", "next", "iter"
    signal,             \* outcome of the last call: "none", "returned", "StopIteration"
    ret,                \* value returned by the last next()
    emitted,            \* values returned by next() since construction / iter()
    stops,              \* consecutive next() calls that raised StopIteration
    calls,              \* number of next() calls made
    \* ---- swissknife.files.BatchArrayIterator ----
    legacy_phase,       \* "new", "ready", "failed"
    legacy_args,        \* arguments of the constructor call
    legacy_error,       \* exception raised by the constructor, or "none"
    legacy_n_batches,   \* self._n_batches
    legacy_looped,      \* whether self._array is cycle(...) (TRUE) or iter(...)
    legacy_array,       \* self.array
    legacy_pos,         \* items taken from the iterator self._array
    legacy_count,       \* self._count
    legacy_signal,      \* outcome of the last __next__: "none", "returned", "StopIteration"
    legacy_ret,         \* batch returned by the last __next__
    legacy_emitted,     \* batches returned by __next__ so far
    legacy_calls,       \* number of __next__ calls made
    \* ---- swissknife.transform.GeneratorPipeline ----
    limit,              \* `limit` of the numbers() source (NoLimit: None)
    max_iters,          \* self.max_iters (NoCap: None)
    steps,              \* self._steps, as the kinds of the stage generators
    source,             \* state of the source generator
    sliced,             \* items the islice wrapper has handed out
    stage_state,        \* state of each stage generator
    need_reset,         \* self._need_reset, as indices into steps
    pipe_signal,        \* outcome of the last next(): "none", "returned", "StopIteration", "TypeError"
    pipe_ret,           \* value returned by the last next()
    outputs,            \* values returned by next() so far
    pulled,             \* source items handed to the stages so far
    pipe_stops,         \* consecutive next() calls that raised StopIteration
    pipe_calls,         \* number of next() calls made
    pipe_op,            \* last call made on the pipeline: "none", "next", "configure", "add"
    pipe_failed_in,     \* where the last call raised: "none", "send", "reset", "init"
    cfg_pulled,         \* value of `pulled` when the source was last wrapped
    pipe_cfgs,          \* number of configure() calls made
    pipe_adds,          \* number of add() calls made
    item_log,           \* for every item pushed through the stages so far: the
                        \* item, the stages it was sent to, what send() returned,
                        \* and the stages then sent the reset signal, in order
    pipe_trace,         \* for every next() call made so far: its outcome, and the
                        \* items pulled, the stage states and the items logged
                        \* after it
    \* ---- swissknife.files.FilesStream and its directory ----
    dir_files,          \* files now in the directory
    dir_changes,        \* files added or removed since the stream was created
    stream_phase,       \* "new" (no constructor call yet), "ready"
    stream_dir,         \* files in the directory when the stream was created
    stream_pattern,     \* the extensions of `pattern`, split at "|"
    stream_batch_size,  \* self.batch_size
    stream_files,       \* self._files
    \* ---- swissknife.iterators.files.FilesIterator ----
    fi_phase,           \* "new" (no constructor call yet), "ready", "failed"
    fi_args,            \* arguments of the constructor call
    fi_error,           \* exception raised by the constructor, or "none"
    fi_files,           \* self._files
    fi_n,               \* self._n
    fi_own_batch_index, \* self._batch_index of the FilesIterator itself (None: not set)
    fi_own_epoch_index, \* self._epoch_index of the FilesIterator itself (None: not set)
    fi_iter,            \* self._iter: the BatchArrayIterator's _n, _batch_index, _epoch_index
    fi_op,              \* last call made on the iterator: "none", "next", "iter"
    fi_signal,          \* outcome of the last call: "none", "returned", "StopIteration"
    fi_ret,             \* value returned by the last next()
    fi_calls,           \* number of next() calls made
    direct,             \* a BatchArrayIterator built directly over fi_files with the
                        \* same configuration and given the same calls
    \* ---- swissknife.notebook.SysPath and sys.path ----
    sys_path,           \* sys.path
    sys_instance,       \* whether SysPath._instance is set
    original_sys_path,  \* self.original_sys_path of the one instance
    sys_start,          \* sys.path before the first call
    sys_trace,          \* the calls made: op, and sys.path and
                        \* original_sys_path after the call
    \* ---- swissknife.utils.BatchGenerator and one flow() generator ----
    bg_phase,           \* "new", "ready" (constructed), "flowing", "done", "failed"
    bg_args,            \* arguments of the constructor call
    bg_error,           \* exception raised by the constructor, or "none"
    bg_arrays,          \* self.arrays
    bg_array_size,      \* self.array_size
    bg_batch_size,      \* self.batch_size
    bg_np_arrays,       \* self.np_arrays
    bg_zipped,          \* self.zipped
    bg_taken,           \* items taken from the iterator `array` of _batches
    bg_count,           \* batches the generator has yielded
    bg_signal,          \* outcome of the last next(): "none", "returned", "StopIteration"
    bg_ret              \* batch yielded by the last next()

batchVars == <<phase, ctor_args, ctor_error, arrays, batch_size, infinite,
               same_size_batches, n_batches, batch_index, epoch_index,
               last_op, signal, ret, emitted, stops, calls>>
legacyVars == <<legacy_phase, legacy_args, legacy_error, legacy_n_batches,
                legacy_looped, legacy_array, legacy_pos, legacy_count,
                legacy_signal, legacy_ret, legacy_emitted, legacy_calls>>
pipeVars == <<limit, max_iters, steps, source, sliced, stage_state,
              need_reset, pipe_signal, pipe_ret, outputs, pulled,
              pipe_stops, pipe_calls, pipe_op, pipe_failed_in, cfg_pulled,
              pipe_cfgs, pipe_adds, item_log, pipe_trace>>
filesVars == <<dir_files, dir_changes, stream_phase, stream_dir,
               stream_pattern, stream_batch_size, stream_files>>
fiVars == <<fi_phase, fi_args, fi_error, fi_files, fi_n, fi_own_batch_index,
            fi_own_epoch_index, fi_iter, fi_op, fi_signal, fi_ret, fi_calls,
            direct>>
sysVars == <<sys_path, sys_instance, original_sys_path, sys_start, sys_trace>>
bgVars == <<bg_phase, bg_args, bg_error, bg_arrays, bg_array_size,
            bg_batch_size, bg_np_arrays, bg_zipped, bg_taken, bg_count,
            bg_signal, bg_ret>>
vars == <<batchVars, legacyVars, pipeVars, filesVars, fiVars, sysVars, bgVars>>

\* ------------------------------------------------------------------------
\* Helpers
\* ------------------------------------------------------------------------
Min(a, b) == IF a < b THEN a ELSE b

\* Python slice a[start:end] of a sequence, 0-based, end exclusive, clamped.
Slice(a, start, end) == SubSeq(a, Min(start, Len(a)) + 1, Min(end, Len(a)))

\* The i-th input sequence of length n: distinct, position-revealing items.
MakeSeq(i, n) == [j \in 1..n |-> 10 * i + j]

\* ------------------------------------------------------------------------
\* swissknife.iterators.arrays
\* ------------------------------------------------------------------------

\* Variant: the length check is missing.
ConvertUnchecked(seqs) == [error |-> "none", arrays |-> seqs]

\* _convert_to_arrays: np.asarray keeps the items and the length of a flat
\* sequence; the only outcome decided here is the length check.
_convert_to_arrays(seqs) ==
    IF \E i \in 2..Len(seqs) : Len(seqs[i]) # Len(seqs[1])
    THEN [error |-> "ValueError", arrays |-> <<>>]
    ELSE [error |-> "none", arrays |-> seqs]

\* math.ceil(n / batch_size) on small non-negative integers.
CeilDiv(n, d) == IF n % d = 0 THEN n \div d ELSE (n \div d) + 1

\* Variant: the two modes are swapped.
NumOfBatchesSwapped(arrs, bs, same_size) ==
    LET n == Len(arrs[1])
    IN IF same_size THEN CeilDiv(n, bs) ELSE n \div bs

\* Variant: floor division in both modes.
NumOfBatchesFloor(arrs, bs, same_size) == Len(arrs[1]) \div bs

_num_of_batches(arrs, bs, same_size) ==
    LET n == Len(arrs[1])
    IN IF same_size THEN n \div bs ELSE CeilDiv(n, bs)

\* BatchArrayIterator._take_next_batch(array) at a given batch index.
_take_next_batch(array, index, bs) == Slice(array, index * bs, (index + 1) * bs)

\* Variant: every component is sliced from the first array.
BatchesFromFirst(arrs, index, bs) ==
    LET slices == [i \in 1..Len(arrs) |-> _take_next_batch(arrs[1], index, bs)]
    IN IF Len(slices) = 1
       THEN [bare |-> TRUE, val |-> slices[1]]
       ELSE [bare |-> FALSE, val |-> slices]

\* The return expression of next(): a bare slice for one array, else a tuple.
Batches(arrs, index, bs) ==
    LET slices == [i \in 1..Len(arrs) |-> _take_next_batch(arrs[i], index, bs)]
    IN IF Len(slices) = 1
       THEN [bare |-> TRUE, val |-> slices[1]]
       ELSE [bare |-> FALSE, val |-> slices]

NoRet == [bare |-> TRUE, val |-> <<>>]

\* Variant: the negation of `infinite` is dropped.
IncompatibleConfigNoNot(inf, same) == inf /\ same

\* The configuration check that opens BatchArrayIterator.__init__.
IncompatibleConfig(inf, same) == (~inf) /\ same

\* BatchArrayIterator.__init__
Construct ==
    /\ phase = "new"
    /\ \E k \in 1..MaxArrays, bs \in 1..MaxBatchSize,
          inf \in BOOLEAN, same \in BOOLEAN :
       \E lens \in [1..k -> 0..MaxLen] :
          LET seqs == [i \in 1..k |-> MakeSeq(i, lens[i])]
              conv == _convert_to_arrays(seqs)
          IN /\ ctor_args' = [lens |-> lens, batch_size |-> bs,
                              infinite |-> inf, same_size_batches |-> same]
             /\ IF IncompatibleConfig(inf, same)
                THEN /\ phase' = "failed"
                     /\ ctor_error' = "ValueError"
                     /\ UNCHANGED <<arrays, batch_size, infinite,
                                    same_size_batches, n_batches>>
                ELSE IF conv.error # "none"
                THEN /\ phase' = "failed"
                     /\ ctor_error' = conv.error
                     /\ UNCHANGED <<arrays, batch_size, infinite,
                                    same_size_batches, n_batches>>
                ELSE /\ phase' = "ready"
                     /\ ctor_error' = "none"
                     /\ arrays' = conv.arrays
                     /\ batch_size' = bs
                     /\ infinite' = inf
                     /\ same_size_batches' = same
                     /\ n_batches' = _num_of_batches(conv.arrays, bs, same)
    /\ UNCHANGED <<batch_index, epoch_index, last_op, signal, ret, emitted,
                   stops, calls>>
    /\ UNCHANGED <<legacyVars, pipeVars, filesVars, fiVars, sysVars, bgVars>>

\* Variant: the cursor is reset before the `infinite` test.
AdvanceCursorResetFirst(bi, ei, n, inf) ==
    IF bi >= n
    THEN [stop |-> ~inf, index |-> 0, epoch |-> ei + 1]
    ELSE [stop |-> FALSE, index |-> bi, epoch |-> ei]

\* Variant: the pass ends one batch late (`>` for `>=`).
AdvanceCursorLate(bi, ei, n, inf) ==
    IF bi > n
    THEN IF ~inf
         THEN [stop |-> TRUE, index |-> bi, epoch |-> ei]
         ELSE [stop |-> FALSE, index |-> 0, epoch |-> ei + 1]
    ELSE [stop |-> FALSE, index |-> bi, epoch |-> ei]

\* Variant: a zero batch count is exhaustion even when infinite.
AdvanceCursorStopOnZero(bi, ei, n, inf) ==
    IF bi >= n
    THEN IF (~inf) \/ n = 0
         THEN [stop |-> TRUE, index |-> bi, epoch |-> ei]
         ELSE [stop |-> FALSE, index |-> 0, epoch |-> ei + 1]
    ELSE [stop |-> FALSE, index |-> bi, epoch |-> ei]

\* Variant: wrapping around does not count an epoch.
AdvanceCursorNoEpoch(bi, ei, n, inf) ==
    IF bi >= n
    THEN IF ~inf
         THEN [stop |-> TRUE, index |-> bi, epoch |-> ei]
         ELSE [stop |-> FALSE, index |-> 0, epoch |-> ei]
    ELSE [stop |-> FALSE, index |-> bi, epoch |-> ei]

\* The head of next(): raise StopIteration, or wrap around, or go on.
\* `index` is the batch index the slices are taken at.
AdvanceCursor(bi, ei, n, inf) ==
    IF bi >= n
    THEN IF ~inf
         THEN [stop |-> TRUE, index |-> bi, epoch |-> ei]
         ELSE [stop |-> FALSE, index |-> 0, epoch |-> ei + 1]
    ELSE [stop |-> FALSE, index |-> bi, epoch |-> ei]

\* BatchArrayIterator.next (IteratorMixin.__next__ delegates to it)
BatchNext ==
    /\ phase = "ready"
    /\ calls < MaxCalls
    /\ calls' = calls + 1
    /\ last_op' = "next"
    /\ LET cur == AdvanceCursor(batch_index, epoch_index, n_batches, infinite)
           batches == Batches(arrays, cur.index, batch_size)
       IN IF cur.stop
          THEN /\ signal' = "StopIteration"
               /\ stops' = stops + 1
               /\ batch_index' = cur.index
               /\ epoch_index' = cur.epoch
               /\ UNCHANGED <<ret, emitted>>
          ELSE /\ epoch_index' = cur.epoch
               /\ batch_index' = cur.index + 1
               /\ signal' = "returned"
               /\ stops' = 0
               /\ ret' = batches
               /\ emitted' = Append(emitted, batches)
    /\ UNCHANGED <<phase, ctor_args, ctor_error, arrays, batch_size, infinite,
                   same_size_batches, n_batches>>
    /\ UNCHANGED <<legacyVars, pipeVars, filesVars, fiVars, sysVars, bgVars>>

\* Variant: __iter__ starts a new epoch count but leaves the cursor.
BatchIterKeepsCursor ==
    /\ phase = "ready"
    /\ epoch_index' = 0
    /\ last_op' = "iter"
    /\ signal' = "none"
    /\ ret' = NoRet
    /\ emitted' = <<>>
    /\ stops' = 0
    /\ UNCHANGED <<phase, ctor_args, ctor_error, arrays, batch_size, infinite,
                   same_size_batches, n_batches, calls, batch_index>>
    /\ UNCHANGED <<legacyVars, pipeVars, filesVars, fiVars, sysVars, bgVars>>

\* IteratorMixin.__iter__
BatchIter ==
    /\ phase = "ready"
    /\ batch_index' = 0
    /\ epoch_index' = 0
    /\ last_op' = "iter"
    /\ signal' = "none"
    /\ ret' = NoRet
    /\ emitted' = <<>>
    /\ stops' = 0
    /\ UNCHANGED <<phase, ctor_args, ctor_error, arrays, batch_size, infinite,
                   same_size_batches, n_batches, calls>>
    /\ UNCHANGED <<legacyVars, pipeVars, filesVars, fiVars, sysVars, bgVars>>

InitBatch ==
    /\ phase = "new"
    /\ ctor_args = [lens |-> <<>>, batch_size |-> 0,
                    infinite |-> FALSE, same_size_batches |-> FALSE]
    /\ ctor_error = "none"
    /\ arrays = <<>>
    /\ batch_size = 0
    /\ infinite = FALSE
    /\ same_size_batches = FALSE
    /\ n_batches = 0
    /\ batch_index = 0
    /\ epoch_index = 0
    /\ last_op = "none"
    /\ signal = "none"
    /\ ret = NoRet
    /\ emitted = <<>>
    /\ stops = 0
    /\ calls = 0

\* ------------------------------------------------------------------------
\* swissknife.files.BatchArrayIterator: the constructor
\* ------------------------------------------------------------------------

\* The configuration check of the legacy constructor.
LegacyIncompatibleConfig(inf, same) == (~inf) /\ same

\* n_batches as the legacy constructor computes it.
LegacyNumOfBatches(n_files, bs, same) ==
    IF same THEN n_files \div bs ELSE CeilDiv(n_files, bs)

\* swissknife.files.BatchArrayIterator.__init__
LegacyConstruct ==
    /\ legacy_phase = "new"
    /\ \E n \in 0..MaxLen, bs \in 1..MaxBatchSize,
          inf \in BOOLEAN, same \in BOOLEAN :
          /\ legacy_args' = [len |-> n, batch_size |-> bs,
                             infinite |-> inf, same_size_batches |-> same]
          /\ IF LegacyIncompatibleConfig(inf, same)
             THEN /\ legacy_phase' = "failed"
                  /\ legacy_error' = "ValueError"
                  /\ UNCHANGED <<legacy_n_batches, legacy_looped,
                                 legacy_array>>
             ELSE /\ legacy_phase' = "ready"
                  /\ legacy_error' = "none"
                  /\ legacy_n_batches' = LegacyNumOfBatches(n, bs, same)
                  /\ legacy_looped' = (inf /\ same)
                  /\ legacy_array' = MakeSeq(1, n)
    /\ UNCHANGED <<legacy_pos, legacy_count, legacy_signal, legacy_ret,
                   legacy_emitted, legacy_calls>>
    /\ UNCHANGED <<batchVars, pipeVars, filesVars, fiVars, sysVars, bgVars>>

\* swissknife.files.BatchArrayIterator.__init__, called with the sequence
\* and the configuration the iterators.arrays.BatchArrayIterator was
\* constructed with
LegacyConstructSame ==
    /\ legacy_phase = "new"
    /\ phase # "new"
    /\ Len(ctor_args.lens) = 1
    /\ LET n == ctor_args.lens[1]
           bs == ctor_args.batch_size
           inf == ctor_args.infinite
           same == ctor_args.same_size_batches
       IN /\ legacy_args' = [len |-> n, batch_size |-> bs,
                             infinite |-> inf, same_size_batches |-> same]
          /\ IF LegacyIncompatibleConfig(inf, same)
             THEN /\ legacy_phase' = "failed"
                  /\ legacy_error' = "ValueError"
                  /\ UNCHANGED <<legacy_n_batches, legacy_looped,
                                 legacy_array>>
             ELSE /\ legacy_phase' = "ready"
                  /\ legacy_error' = "none"
                  /\ legacy_n_batches' = LegacyNumOfBatches(n, bs, same)
                  /\ legacy_looped' = (inf /\ same)
                  /\ legacy_array' = MakeSeq(1, n)
    /\ UNCHANGED <<legacy_pos, legacy_count, legacy_signal, legacy_ret,
                   legacy_emitted, legacy_calls>>
    /\ UNCHANGED <<batchVars, pipeVars, filesVars, fiVars, sysVars, bgVars>>

\* next(): `self._array = iter(self.array)` at the end of a pass; the result
\* says whether the new self._array is a cycle.
LegacyRestart(looped) == FALSE

\* [x for x in islice(self._array, 0, bs)] from position pos of
\* cycle(array) (looped) or iter(array).
LegacyTake(array, looped, pos, bs) ==
    LET n == Len(array)
    IN IF looped
       THEN IF n = 0
            THEN [batch |-> <<>>, pos |-> 0]
            ELSE [batch |-> [j \in 1..bs |-> array[((pos + j - 1) % n) + 1]],
                  pos |-> (pos + bs) % n]
       ELSE [batch |-> SubSeq(array, pos + 1, Min(pos + bs, n)),
             pos |-> Min(pos + bs, n)]

\* swissknife.files.BatchArrayIterator.__next__ with the next() it calls
LegacyNext ==
    /\ legacy_phase = "ready"
    /\ legacy_calls < MaxCalls
    /\ legacy_calls' = legacy_calls + 1
    /\ LET inf == legacy_args.infinite
           bs == legacy_args.batch_size
       IN IF (~inf) /\ legacy_count >= legacy_n_batches
          THEN /\ legacy_signal' = "StopIteration"
               /\ UNCHANGED <<legacy_looped, legacy_pos, legacy_count,
                              legacy_ret, legacy_emitted>>
          ELSE LET restart == inf /\ legacy_count = legacy_n_batches
                   looped == IF restart THEN LegacyRestart(legacy_looped)
                             ELSE legacy_looped
                   pos == IF restart THEN 0 ELSE legacy_pos
                   count == IF restart THEN 0 ELSE legacy_count
                   t == LegacyTake(legacy_array, looped, pos, bs)
               IN /\ legacy_looped' = looped
                  /\ legacy_pos' = t.pos
                  /\ legacy_count' = count + 1
                  /\ legacy_signal' = "returned"
                  /\ legacy_ret' = t.batch
                  /\ legacy_emitted' = Append(legacy_emitted, t.batch)
    /\ UNCHANGED <<legacy_phase, legacy_args, legacy_error, legacy_n_batches,
                   legacy_array>>
    /\ UNCHANGED <<batchVars, pipeVars, filesVars, fiVars, sysVars, bgVars>>

InitLegacy ==
    /\ legacy_phase = "new"
    /\ legacy_args = [len |-> 0, batch_size |-> 0,
                      infinite |-> FALSE, same_size_batches |-> FALSE]
    /\ legacy_error = "none"
    /\ legacy_n_batches = 0
    /\ legacy_looped = FALSE
    /\ legacy_array = <<>>
    /\ legacy_pos = 0
    /\ legacy_count = 0
    /\ legacy_signal = "none"
    /\ legacy_ret = <<>>
    /\ legacy_emitted = <<>>
    /\ legacy_calls = 0

\* ------------------------------------------------------------------------
\* swissknife.transform.GeneratorPipeline
\* ------------------------------------------------------------------------

\* Python's None: the sentinel of the stages, an absent limit, an absent cap.
None == -1

StageKinds == {"filter_evens", "primes_only"}

\* int(math.floor(math.sqrt(number)))
ISqrt(number) == CHOOSE r \in 0..number : r * r <= number /\ (r + 1) * (r + 1) > number

\* What a stage generator yields for a received number.
StageFn(kind, number) ==
    IF kind = "filter_evens"
    THEN IF number % 2 # 0 THEN number ELSE None
    ELSE LET threshold == ISqrt(number) + 1
         IN IF \A x \in 2..(threshold - 1) : number % x # 0
            THEN number ELSE None

\* next() on the numbers(start=1, limit) generator.
\* at: "fresh" (not started), "yielded" (suspended at yield), "done".
numbers(src, lim) ==
    IF src.at = "fresh"
    THEN [stop |-> FALSE, val |-> src.start,
          src |-> [start |-> src.start, at |-> "yielded"]]
    ELSE IF src.at = "yielded"
    THEN IF lim # None /\ src.start + 1 >= lim
         THEN [stop |-> TRUE, val |-> None,
               src |-> [start |-> src.start + 1, at |-> "done"]]
         ELSE [stop |-> FALSE, val |-> src.start + 1,
               src |-> [start |-> src.start + 1, at |-> "yielded"]]
    ELSE [stop |-> TRUE, val |-> None, src |-> src]

\* Variant: the cap lets one more item through (`>` for `>=`).
SourceNextLate(src, cnt, lim, cap) ==
    IF cap # None /\ cnt > cap
    THEN [stop |-> TRUE, val |-> None, src |-> src, sliced |-> cnt]
    ELSE LET r == numbers(src, lim)
         IN [stop |-> r.stop, val |-> r.val, src |-> r.src,
             sliced |-> IF r.stop THEN cnt ELSE cnt + 1]

\* Variant: the source is never wrapped in islice.
SourceNextUncapped(src, cnt, lim, cap) ==
    LET r == numbers(src, lim)
    IN [stop |-> r.stop, val |-> r.val, src |-> r.src,
        sliced |-> IF r.stop THEN cnt ELSE cnt + 1]

\* next(self._source): the source itself, or islice(source, 0, max_iters).
SourceNext(src, cnt, lim, cap) ==
    IF cap # None /\ cnt >= cap
    THEN [stop |-> TRUE, val |-> None, src |-> src, sliced |-> cnt]
    ELSE LET r == numbers(src, lim)
         IN [stop |-> r.stop, val |-> r.val, src |-> r.src,
             sliced |-> IF r.stop THEN cnt ELSE cnt + 1]

\* generator.send(value) on a stage generator
\*     while True: number = yield; yield f(number)
\* state.at: "fresh" (not started), "awaiting" (at `number = yield`),
\*           "holding" (at `yield f(number)`), "dead" (raised);
\* state.seen: how many numbers the generator has received.
\* A just-started generator refuses a non-None value; f(None) raises
\* TypeError in both stage kinds; a finished generator raises StopIteration.
GenSend(kind, state, value) ==
    IF state.at = "fresh"
    THEN IF value # None
         THEN [error |-> "TypeError", out |-> None, state |-> state]
         ELSE [error |-> "none", out |-> None,
               state |-> [state EXCEPT !.at = "awaiting"]]
    ELSE IF state.at = "awaiting"
    THEN IF value = None
         THEN [error |-> "TypeError", out |-> None,
               state |-> [state EXCEPT !.at = "dead"]]
         ELSE [error |-> "none", out |-> StageFn(kind, value),
               state |-> [at |-> "holding", seen |-> state.seen + 1]]
    ELSE IF state.at = "holding"
    THEN [error |-> "none", out |-> None,
          state |-> [state EXCEPT !.at = "awaiting"]]
    ELSE [error |-> "StopIteration", out |-> None, state |-> state]

\* Variant: a stage that produced None is passed over, and the value it was
\* sent goes on to the next stage.
RECURSIVE SendFromNoBreak(_, _, _, _, _)
SendFromNoBreak(i, processed, kinds, st, need) ==
    IF i > Len(kinds)
    THEN [error |-> "none", out |-> processed, st |-> st, need |-> need]
    ELSE LET r == GenSend(kinds[i], st[i], processed)
             st2 == [st EXCEPT ![i] = r.state]
         IN IF r.error # "none"
            THEN [error |-> r.error, out |-> None, st |-> st2, need |-> need]
            ELSE SendFromNoBreak(i + 1,
                                 IF r.out = None THEN processed ELSE r.out,
                                 kinds, st2, Append(need, i))

\* Variant: only a stage that produced a value is put on the pending list.
RECURSIVE SendFromPendingProducers(_, _, _, _, _)
SendFromPendingProducers(i, processed, kinds, st, need) ==
    IF i > Len(kinds)
    THEN [error |-> "none", out |-> processed, st |-> st, need |-> need]
    ELSE LET r == GenSend(kinds[i], st[i], processed)
             st2 == [st EXCEPT ![i] = r.state]
         IN IF r.error # "none"
            THEN [error |-> r.error, out |-> None, st |-> st2, need |-> need]
            ELSE IF r.out = None
            THEN [error |-> "none", out |-> None, st |-> st2, need |-> need]
            ELSE SendFromPendingProducers(i + 1, r.out, kinds, st2,
                                          Append(need, i))

\* GeneratorPipeline.send, from stage i on.
RECURSIVE SendFrom(_, _, _, _, _)
SendFrom(i, processed, kinds, st, need) ==
    IF i > Len(kinds)
    THEN [error |-> "none", out |-> processed, st |-> st, need |-> need]
    ELSE LET r == GenSend(kinds[i], st[i], processed)
             st2 == [st EXCEPT ![i] = r.state]
         IN IF r.error # "none"
            THEN [error |-> r.error, out |-> None, st |-> st2, need |-> need]
            ELSE IF r.out = None
            THEN [error |-> "none", out |-> None, st |-> st2,
                  need |-> Append(need, i)]
            ELSE SendFrom(i + 1, r.out, kinds, st2, Append(need, i))

send(batch, kinds, st, need) == SendFrom(1, batch, kinds, st, need)

\* Variant: `if` for `while`: only the last pending generator is advanced.
ResetOnlyLast(kinds, st, need) ==
    IF need = <<>>
    THEN [error |-> "none", st |-> st, need |-> need]
    ELSE LET i == need[Len(need)]
             rest == SubSeq(need, 1, Len(need) - 1)
             r == GenSend(kinds[i], st[i], None)
         IN [error |-> r.error, st |-> [st EXCEPT ![i] = r.state], need |-> rest]

\* GeneratorPipeline.reset_if_needed
RECURSIVE reset_if_needed(_, _, _)
reset_if_needed(kinds, st, need) ==
    IF need = <<>>
    THEN [error |-> "none", st |-> st, need |-> need]
    ELSE LET i == need[Len(need)]
             rest == SubSeq(need, 1, Len(need) - 1)
             r == GenSend(kinds[i], st[i], None)
             st2 == [st EXCEPT ![i] = r.state]
         IN IF r.error # "none"
            THEN [error |-> r.error, st |-> st2, need |-> rest]
            ELSE reset_if_needed(kinds, st2, rest)

\* The record of one item's turn: send() was entered with the stage states
\* `st`, returned t, and the resets left the pending list `left`. The
\* stages the item was sent to are those that received one more number
\* (send() goes through the stages in order). reset_if_needed pops from the
\* end, so the stages reset are the popped tail of t.need, last first.
ItemLog(item, st, t, left) ==
    LET popped == SubSeq(t.need, Len(left) + 1, Len(t.need))
        received == {i \in DOMAIN st : t.st[i].seen > st[i].seen}
    IN [item |-> item,
        sent |-> [j \in 1..Cardinality(received) |-> j],
        out |-> t.out,
        reset |-> [j \in 1..Len(popped) |-> popped[Len(popped) + 1 - j]]]

\* Variant: the loop returns whatever the first item gave.
LoopBreaksAlways(transformed) == TRUE

\* The exit test of the loop in next().
LoopBreaks(transformed) == transformed # None

\* Variant: the stages are reset also when send() raised.
RECURSIVE NextResetsOnFailure(_)
NextResetsOnFailure(p) ==
    LET s == SourceNext(p.source, p.sliced, p.limit, p.max_iters)
    IN IF s.stop
       THEN [p EXCEPT !.signal = "StopIteration", !.source = s.src,
                      !.sliced = s.sliced]
       ELSE IF s.val > MaxSrc
       THEN [p EXCEPT !.signal = "cut"]
       ELSE LET t == send(s.val, p.steps, p.st, p.need)
                z == reset_if_needed(p.steps, t.st, t.need)
                q == [p EXCEPT !.source = s.src, !.sliced = s.sliced,
                               !.pulled = p.pulled + 1,
                               !.log = Append(p.log, ItemLog(s.val, p.st, t, z.need))]
            IN IF t.error # "none"
               THEN [q EXCEPT !.signal = t.error, !.where = "send",
                              !.st = z.st, !.need = z.need]
               ELSE IF z.error # "none"
               THEN [q EXCEPT !.signal = z.error, !.where = "reset",
                              !.st = z.st, !.need = z.need]
               ELSE IF LoopBreaks(t.out)
               THEN [q EXCEPT !.signal = "returned", !.ret = t.out,
                              !.st = z.st, !.need = z.need]
               ELSE NextResetsOnFailure([q EXCEPT !.st = z.st,
                                                  !.need = z.need])

\* GeneratorPipeline.next: the loop, from the pipeline state p.
RECURSIVE next(_)
next(p) ==
    LET s == SourceNext(p.source, p.sliced, p.limit, p.max_iters)
    IN IF s.stop
       THEN [p EXCEPT !.signal = "StopIteration", !.source = s.src,
                      !.sliced = s.sliced]
       ELSE IF s.val > MaxSrc
       THEN [p EXCEPT !.signal = "cut"]
       ELSE LET t == send(s.val, p.steps, p.st, p.need)
                q == [p EXCEPT !.source = s.src, !.sliced = s.sliced,
                               !.pulled = p.pulled + 1]
            IN IF t.error # "none"
               THEN [q EXCEPT !.signal = t.error, !.where = "send",
                              !.st = t.st, !.need = t.need,
                              !.log = Append(p.log, ItemLog(s.val, p.st, t, t.need))]
               ELSE LET z == reset_if_needed(p.steps, t.st, t.need)
                        l == Append(p.log, ItemLog(s.val, p.st, t, z.need))
                    IN IF z.error # "none"
                       THEN [q EXCEPT !.signal = z.error, !.where = "reset",
                                      !.st = z.st, !.need = z.need, !.log = l]
                       ELSE IF LoopBreaks(t.out)
                       THEN [q EXCEPT !.signal = "returned", !.ret = t.out,
                                      !.st = z.st, !.need = z.need, !.log = l]
                       ELSE next([q EXCEPT !.st = z.st, !.need = z.need,
                                           !.log = l])

\* GeneratorPipeline.__next__
PipeNext ==
    /\ pipe_calls < MaxPipeCalls
    /\ LET p == [source |-> source, sliced |-> sliced, limit |-> limit,
                 max_iters |-> max_iters, steps |-> steps,
                 st |-> stage_state, need |-> need_reset,
                 pulled |-> pulled, signal |-> "none", ret |-> None,
                 where |-> "none", log |-> item_log]
           r == next(p)
       IN /\ r.signal # "cut"
          /\ source' = r.source
          /\ sliced' = r.sliced
          /\ stage_state' = r.st
          /\ need_reset' = r.need
          /\ pulled' = r.pulled
          /\ pipe_signal' = r.signal
          /\ pipe_ret' = r.ret
          /\ outputs' = IF r.signal = "returned"
                        THEN Append(outputs, r.ret) ELSE outputs
          /\ pipe_stops' = IF r.signal = "StopIteration"
                           THEN pipe_stops + 1 ELSE 0
          /\ pipe_failed_in' = r.where
          /\ item_log' = r.log
          /\ pipe_trace' = Append(pipe_trace,
                                  [signal |-> r.signal, ret |-> r.ret,
                                   pulled |-> r.pulled, st |-> r.st,
                                   logged |-> Len(r.log)])
    /\ pipe_calls' = pipe_calls + 1
    /\ pipe_op' = "next"
    /\ UNCHANGED <<limit, max_iters, steps, cfg_pulled, pipe_cfgs, pipe_adds>>
    /\ UNCHANGED <<batchVars, legacyVars, filesVars, fiVars, sysVars, bgVars>>

\* The loop of GeneratorPipeline._init: send(None) to every stage in order,
\* from stage i on; an exception ends it.
RECURSIVE InitSteps(_, _, _)
InitSteps(i, kinds, st) ==
    IF i > Len(kinds)
    THEN [error |-> "none", st |-> st]
    ELSE LET r == GenSend(kinds[i], st[i], None)
             st2 == [st EXCEPT ![i] = r.state]
         IN IF r.error # "none"
            THEN [error |-> r.error, st |-> st2]
            ELSE InitSteps(i + 1, kinds, st2)

\* GeneratorPipeline.configure(max_iters=m): the cap is set and the source
\* wrapped anew before the stages are sent None.
PipeConfigure ==
    /\ pipe_cfgs < MaxConfigures
    /\ \E m \in {None} \cup 0..MaxCfgCap :
          LET r == InitSteps(1, steps, stage_state)
          IN /\ max_iters' = m
             /\ sliced' = 0
             /\ cfg_pulled' = pulled
             /\ stage_state' = r.st
             /\ pipe_signal' = IF r.error = "none" THEN "done" ELSE r.error
             /\ pipe_failed_in' = IF r.error = "none" THEN "none" ELSE "init"
    /\ pipe_cfgs' = pipe_cfgs + 1
    /\ pipe_op' = "configure"
    /\ pipe_stops' = 0
    /\ UNCHANGED <<limit, steps, source, need_reset, pipe_ret, outputs,
                   pulled, pipe_calls, pipe_adds, item_log, pipe_trace>>
    /\ UNCHANGED <<batchVars, legacyVars, filesVars, fiVars, sysVars, bgVars>>

\* A stage generator as handed to add(): just created, or already advanced
\* to its first yield by the caller.
NewStage(primed) == [at |-> IF primed THEN "awaiting" ELSE "fresh", seen |-> 0]

\* GeneratorPipeline.add(generator)
PipeAdd ==
    /\ pipe_adds < MaxAdds
    /\ \E kind \in StageKinds, primed \in BOOLEAN :
          /\ steps' = Append(steps, kind)
          /\ stage_state' = Append(stage_state, NewStage(primed))
    /\ pipe_adds' = pipe_adds + 1
    /\ pipe_op' = "add"
    /\ pipe_signal' = "done"
    /\ pipe_failed_in' = "none"
    /\ pipe_stops' = 0
    /\ UNCHANGED <<limit, max_iters, source, sliced, need_reset, pipe_ret,
                   outputs, pulled, pipe_calls, cfg_pulled, pipe_cfgs,
                   item_log, pipe_trace>>
    /\ UNCHANGED <<batchVars, legacyVars, filesVars, fiVars, sysVars, bgVars>>

\* Sequences over S of length at most n.
SeqsUpTo(S, n) == UNION {[1..k -> S] : k \in 0..n}

\* GeneratorPipeline._init applied to freshly created stage generators.
_init(kinds) == [i \in 1..Len(kinds) |-> GenSend(kinds[i], NewStage(FALSE), None).state]

\* GeneratorPipeline.__init__ over numbers(limit=lim), stages, max_iters=cap
PipeCreated(lim, cap, kinds) ==
    /\ limit = lim
    /\ max_iters = cap
    /\ steps = kinds
    /\ source = [start |-> 1, at |-> "fresh"]
    /\ sliced = 0
    /\ stage_state = _init(kinds)
    /\ need_reset = <<>>
    /\ pipe_signal = "none"
    /\ pipe_ret = None
    /\ outputs = <<>>
    /\ pulled = 0
    /\ pipe_stops = 0
    /\ pipe_calls = 0
    /\ pipe_op = "none"
    /\ pipe_failed_in = "none"
    /\ cfg_pulled = 0
    /\ pipe_cfgs = 0
    /\ pipe_adds = 0
    /\ item_log = <<>>
    /\ pipe_trace = <<>>

InitPipe ==
    \E lim \in {None} \cup 1..MaxLimit, cap \in {None} \cup 0..MaxCap,
       kinds \in SeqsUpTo(StageKinds, MaxStages) :
       PipeCreated(lim, cap, kinds)

\* A narrower choice of pipelines, for configure() and add().
InitPipeSmall ==
    \E lim \in {None} \cup 1..MaxSmallLimit, cap \in {None} \cup 0..MaxCfgCap,
       kinds \in SeqsUpTo(StageKinds, MaxStages) :
       PipeCreated(lim, cap, kinds)

\* One fixed pipeline, for the specifications that do not drive it.
InitPipeIdle == PipeCreated(None, None, <<"filter_evens", "primes_only">>)

\* ------------------------------------------------------------------------
\* swissknife.files.FilesStream
\* ------------------------------------------------------------------------

\* The files a directory may hold, and the extensions a pattern may name.
File(name, ext) == [name |-> name, ext |-> ext]
AllFiles == {File("a", "txt"), File("b", "txt"), File("c", "txt"),
             File("d", "mock")}
Extensions == {"txt", "mock"}

\* pattern.split('|') if '|' in pattern else [pattern]: the patterns are
\* taken as the non-empty sequences of extensions they split into.
Patterns == SeqsUpTo(Extensions, MaxPatternLen) \ {<<>>}

\* The listings folder.glob('*.' + ext) may return: the files of the
\* directory with that extension, in any order.
GlobListings(dir, ext) ==
    LET matching == {f \in dir : f.ext = ext}
    IN {l \in [1..Cardinality(matching) -> matching] :
           \A i, j \in DOMAIN l : l[i] = l[j] => i = j}

\* chain(*listings)
RECURSIVE chain(_)
chain(listings) ==
    IF listings = <<>>
    THEN <<>>
    ELSE listings[1] \o chain(SubSeq(listings, 2, Len(listings)))

\* FilesStream.__init__(folder, batch_size, pattern)
StreamConstruct ==
    /\ stream_phase = "new"
    /\ \E pattern \in Patterns, bs \in 1..MaxBatchSize :
       \E listings \in [1..Len(pattern) -> UNION {GlobListings(dir_files, e) : e \in Extensions}] :
          /\ \A k \in 1..Len(pattern) :
                listings[k] \in GlobListings(dir_files, pattern[k])
          /\ stream_pattern' = pattern
          /\ stream_batch_size' = bs
          /\ stream_files' = chain(listings)
    /\ stream_phase' = "ready"
    /\ stream_dir' = dir_files
    /\ UNCHANGED <<dir_files, dir_changes>>
    /\ UNCHANGED <<batchVars, legacyVars, pipeVars, fiVars, sysVars, bgVars>>

\* FilesStream.__call__(infinite, same_size_batches): the legacy
\* BatchArrayIterator over self._files
StreamCall ==
    /\ stream_phase = "ready"
    /\ legacy_phase = "new"
    /\ \E inf \in BOOLEAN, same \in BOOLEAN :
          /\ legacy_args' = [len |-> Len(stream_files),
                             batch_size |-> stream_batch_size,
                             infinite |-> inf, same_size_batches |-> same]
          /\ IF LegacyIncompatibleConfig(inf, same)
             THEN /\ legacy_phase' = "failed"
                  /\ legacy_error' = "ValueError"
                  /\ UNCHANGED <<legacy_n_batches, legacy_looped,
                                 legacy_array>>
             ELSE /\ legacy_phase' = "ready"
                  /\ legacy_error' = "none"
                  /\ legacy_n_batches' =
                        LegacyNumOfBatches(Len(stream_files),
                                           stream_batch_size, same)
                  /\ legacy_looped' = (inf /\ same)
                  /\ legacy_array' = stream_files
    /\ UNCHANGED <<legacy_pos, legacy_count, legacy_signal, legacy_ret,
                   legacy_emitted, legacy_calls>>
    /\ UNCHANGED <<batchVars, pipeVars, filesVars, fiVars, sysVars, bgVars>>

\* A file is written into the directory after the stream was created.
DirAdd ==
    /\ stream_phase = "ready"
    /\ dir_changes < MaxDirChanges
    /\ \E f \in AllFiles \ dir_files : dir_files' = dir_files \cup {f}
    /\ dir_changes' = dir_changes + 1
    /\ UNCHANGED <<stream_phase, stream_dir, stream_pattern,
                   stream_batch_size, stream_files>>
    /\ UNCHANGED <<batchVars, legacyVars, pipeVars, fiVars, sysVars, bgVars>>

\* A file is deleted from the directory after the stream was created.
DirRemove ==
    /\ stream_phase = "ready"
    /\ dir_changes < MaxDirChanges
    /\ \E f \in dir_files : dir_files' = dir_files \ {f}
    /\ dir_changes' = dir_changes + 1
    /\ UNCHANGED <<stream_phase, stream_dir, stream_pattern,
                   stream_batch_size, stream_files>>
    /\ UNCHANGED <<batchVars, legacyVars, pipeVars, fiVars, sysVars, bgVars>>

\* No stream created yet, over a directory holding the files `dir`.
NoStream(dir) ==
    /\ dir_files = dir
    /\ dir_changes = 0
    /\ stream_phase = "new"
    /\ stream_dir = {}
    /\ stream_pattern = <<>>
    /\ stream_batch_size = 0
    /\ stream_files = <<>>

\* ------------------------------------------------------------------------
\* swissknife.iterators.files.FilesIterator
\* ------------------------------------------------------------------------

\* glob(folder, extensions): every file of the directory whose extension is
\* one of `extensions`, each once, in any order.
glob(dir, extensions) ==
    LET matching == {f \in dir : \E k \in DOMAIN extensions : f.ext = extensions[k]}
    IN {l \in [1..Cardinality(matching) -> matching] :
           \A i, j \in DOMAIN l : l[i] = l[j] => i = j}

\* The counters of a BatchArrayIterator right after __init__.
NewIterator(arrs, bs, same) ==
    [n |-> _num_of_batches(arrs, bs, same), batch_index |-> 0, epoch_index |-> 0]

\* BatchArrayIterator.next on the counters `it` of an iterator over `arrs`.
NextOf(it, arrs, bs, inf) ==
    LET cur == AdvanceCursor(it.batch_index, it.epoch_index, it.n, inf)
    IN IF cur.stop
       THEN [it |-> [it EXCEPT !.batch_index = cur.index, !.epoch_index = cur.epoch],
             signal |-> "StopIteration", ret |-> NoRet]
       ELSE [it |-> [it EXCEPT !.batch_index = cur.index + 1, !.epoch_index = cur.epoch],
             signal |-> "returned", ret |-> Batches(arrs, cur.index, bs)]

\* IteratorMixin.__iter__ on a BatchArrayIterator with the counters `it`.
IterOf(it) == [it EXCEPT !.batch_index = 0, !.epoch_index = 0]

\* FilesIterator.__init__(folder, pattern, batch_size, infinite, same_size_batches)
FIConstruct ==
    /\ fi_phase = "new"
    /\ \E pattern \in Patterns, bs \in 1..MaxBatchSize,
          inf \in BOOLEAN, same \in BOOLEAN :
       \E files \in glob(dir_files, pattern) :
          LET conv == _convert_to_arrays(<<files>>)
          IN /\ fi_args' = [pattern |-> pattern, batch_size |-> bs,
                            infinite |-> inf, same_size_batches |-> same]
             /\ IF IncompatibleConfig(inf, same)
                THEN /\ fi_phase' = "failed"
                     /\ fi_error' = "ValueError"
                     /\ UNCHANGED <<fi_files, fi_n, fi_iter, direct>>
                ELSE /\ fi_phase' = "ready"
                     /\ fi_error' = "none"
                     /\ fi_files' = files
                     /\ fi_n' = Len(files)
                     /\ fi_iter' = NewIterator(conv.arrays, bs, same)
                     /\ direct' = [it |-> NewIterator(conv.arrays, bs, same),
                                   signal |-> "none", ret |-> NoRet]
    /\ UNCHANGED <<fi_own_batch_index, fi_own_epoch_index, fi_op, fi_signal,
                   fi_ret, fi_calls>>
    /\ UNCHANGED <<batchVars, legacyVars, pipeVars, filesVars, sysVars, bgVars>>

\* FilesIterator.next (IteratorMixin.__next__ delegates to it): next(self._iter)
FINext ==
    /\ fi_phase = "ready"
    /\ fi_calls < MaxCalls
    /\ fi_calls' = fi_calls + 1
    /\ fi_op' = "next"
    /\ LET r == NextOf(fi_iter, <<fi_files>>, fi_args.batch_size, fi_args.infinite)
           d == NextOf(direct.it, <<fi_files>>, fi_args.batch_size, fi_args.infinite)
       IN /\ fi_iter' = r.it
          /\ fi_signal' = r.signal
          /\ fi_ret' = r.ret
          /\ direct' = d
    /\ UNCHANGED <<fi_phase, fi_args, fi_error, fi_files, fi_n,
                   fi_own_batch_index, fi_own_epoch_index>>
    /\ UNCHANGED <<batchVars, legacyVars, pipeVars, filesVars, sysVars, bgVars>>

\* IteratorMixin.__iter__ on the FilesIterator: it assigns the attributes of
\* the FilesIterator itself; self._iter is not touched.
FIIter ==
    /\ fi_phase = "ready"
    /\ fi_own_batch_index' = 0
    /\ fi_own_epoch_index' = 0
    /\ fi_op' = "iter"
    /\ fi_signal' = "none"
    /\ fi_ret' = NoRet
    /\ direct' = [it |-> IterOf(direct.it), signal |-> "none", ret |-> NoRet]
    /\ UNCHANGED <<fi_phase, fi_args, fi_error, fi_files, fi_n, fi_iter,
                   fi_calls>>
    /\ UNCHANGED <<batchVars, legacyVars, pipeVars, filesVars, sysVars, bgVars>>

\* FilesIterator.batch_index and FilesIterator.epoch_index
FIBatchIndex == fi_iter.batch_index
FIEpochIndex == fi_iter.epoch_index

\* IteratorMixin.n_batches on the FilesIterator
FINBatches == fi_n

InitFI ==
    /\ fi_phase = "new"
    /\ fi_args = [pattern |-> <<>>, batch_size |-> 0,
                  infinite |-> FALSE, same_size_batches |-> FALSE]
    /\ fi_error = "none"
    /\ fi_files = <<>>
    /\ fi_n = 0
    /\ fi_own_batch_index = None
    /\ fi_own_epoch_index = None
    /\ fi_iter = [n |-> 0, batch_index |-> 0, epoch_index |-> 0]
    /\ fi_op = "none"
    /\ fi_signal = "none"
    /\ fi_ret = NoRet
    /\ fi_calls = 0
    /\ direct = [it |-> [n |-> 0, batch_index |-> 0, epoch_index |-> 0],
                 signal |-> "none", ret |-> NoRet]

\* ------------------------------------------------------------------------
\* swissknife.notebook.SysPath
\* ------------------------------------------------------------------------

\* The paths passed to extend(), and the values sys.path may start with.
SearchPaths == {"/new/path", "~/lib"}
StartPaths == {<<>>, <<"/path/to/module">>, <<"/path/to/module", "/new/path">>}

\* os.path.expanduser: a leading "~" is replaced by the home directory.
expanduser(p) == IF p = "~/lib" THEN "/home/user/lib" ELSE p

\* original_sys_path is None, or a saved copy of sys.path.
NotSaved == [set |-> FALSE, val |-> <<>>]
Saved(path) == [set |-> TRUE, val |-> path]

\* Variant: sys.path is saved after it was extended.
ExtendSavesLate(orig, path, paths) ==
    IF orig.set
    THEN [orig |-> orig, path |-> path]
    ELSE LET expanded == [i \in DOMAIN paths |-> expanduser(paths[i])]
             in_path(q) == \E j \in DOMAIN path : path[j] = q
             unique == SelectSeq(expanded, LAMBDA q : ~in_path(q))
         IN [orig |-> Saved(unique \o path), path |-> unique \o path]

\* SysPath.extend(path, *paths) on the instance whose original_sys_path is
\* `orig`, with sys.path = `path`.
extend(orig, path, paths) ==
    IF orig.set
    THEN [orig |-> orig, path |-> path]
    ELSE LET expanded == [i \in DOMAIN paths |-> expanduser(paths[i])]
             in_path(q) == \E j \in DOMAIN path : path[j] = q
             unique == SelectSeq(expanded, LAMBDA q : ~in_path(q))
         IN [orig |-> Saved(path), path |-> unique \o path]

\* SysPath.restore()
restore(orig, path) ==
    [orig |-> NotSaved, path |-> IF orig.set THEN orig.val ELSE path]

\* The record of the calls, one entry longer.
Called(op, path, saved) ==
    Append(sys_trace, [op |-> op, path |-> path, saved |-> saved])

\* SysPath(): __new__ hands out the one instance (creating it the first
\* time), then __init__ runs on it.
SysPathNew ==
    /\ Len(sys_trace) < MaxSysCalls
    /\ sys_instance' = TRUE
    /\ original_sys_path' = NotSaved
    /\ sys_trace' = Called("SysPath", sys_path, NotSaved)
    /\ UNCHANGED <<sys_path, sys_start>>
    /\ UNCHANGED <<batchVars, legacyVars, pipeVars, filesVars, fiVars, bgVars>>

\* SysPath.extend(path, *paths), called on the instance
SysExtend ==
    /\ sys_instance
    /\ Len(sys_trace) < MaxSysCalls
    /\ \E paths \in SeqsUpTo(SearchPaths, MaxExtendArgs) \ {<<>>} :
          LET r == extend(original_sys_path, sys_path, paths)
          IN /\ original_sys_path' = r.orig
             /\ sys_path' = r.path
             /\ sys_trace' = Called("extend", r.path, r.orig)
    /\ UNCHANGED <<sys_instance, sys_start>>
    /\ UNCHANGED <<batchVars, legacyVars, pipeVars, filesVars, fiVars, bgVars>>

\* SysPath.restore(), called on the instance
SysRestore ==
    /\ sys_instance
    /\ Len(sys_trace) < MaxSysCalls
    /\ LET r == restore(original_sys_path, sys_path)
       IN /\ original_sys_path' = r.orig
          /\ sys_path' = r.path
          /\ sys_trace' = Called("restore", r.path, r.orig)
    /\ UNCHANGED <<sys_instance, sys_start>>
    /\ UNCHANGED <<batchVars, legacyVars, pipeVars, filesVars, fiVars, bgVars>>

\* extend_search_path(path, *paths): SysPath(), then extend on it;
\* print_paths only writes to the standard output.
ExtendSearchPath ==
    /\ Len(sys_trace) < MaxSysCalls
    /\ sys_instance' = TRUE
    /\ \E paths \in SeqsUpTo(SearchPaths, MaxExtendArgs) \ {<<>>} :
          LET r == extend(NotSaved, sys_path, paths)
          IN /\ original_sys_path' = r.orig
             /\ sys_path' = r.path
             /\ sys_trace' = Called("extend_search_path", r.path, r.orig)
    /\ UNCHANGED sys_start
    /\ UNCHANGED <<batchVars, legacyVars, pipeVars, filesVars, fiVars, bgVars>>

\* No SysPath obtained yet, sys.path = `path`.
NoSysPath(path) ==
    /\ sys_path = path
    /\ sys_instance = FALSE
    /\ original_sys_path = NotSaved
    /\ sys_start = path
    /\ sys_trace = <<>>

\* ------------------------------------------------------------------------
\* swissknife.utils.BatchGenerator
\* ------------------------------------------------------------------------

\* BatchGenerator.__init__(*arrays, batch_size, np_arrays)
BGConstruct ==
    /\ bg_phase = "new"
    /\ \E k \in 1..MaxArrays, bs \in 1..MaxBatchSize, np \in BOOLEAN :
       \E lens \in [1..k -> 0..MaxLen] :
          LET arrs == [i \in 1..k |-> MakeSeq(i, lens[i])]
              n == Len(arrs[1])
          IN /\ bg_args' = [lens |-> lens, batch_size |-> bs, np_arrays |-> np]
             /\ IF \E i \in 2..k : Len(arrs[i]) # n
                THEN /\ bg_phase' = "failed"
                     /\ bg_error' = "ValueError"
                     /\ UNCHANGED <<bg_arrays, bg_array_size, bg_batch_size,
                                    bg_np_arrays, bg_zipped>>
                ELSE /\ bg_phase' = "ready"
                     /\ bg_error' = "none"
                     /\ bg_zipped' = (k > 1)
                     /\ bg_arrays' = arrs
                     /\ bg_array_size' = n
                     /\ bg_batch_size' = bs
                     /\ bg_np_arrays' = np
    /\ UNCHANGED <<bg_taken, bg_count, bg_signal, bg_ret>>
    /\ UNCHANGED <<batchVars, legacyVars, pipeVars, filesVars, fiVars, sysVars>>

\* The k-tuple zip(*arrays) yields at 0-based position `pos`, as a list.
Row(arrs, pos) == [i \in 1..Len(arrs) |-> arrs[i][pos + 1]]

\* [list(x) for x in zip(*batches)], where `batches` are the tuples of
\* zip(*arrays) at the positions from..to-1: one list per array.
Columns(arrs, from, to) == [i \in 1..Len(arrs) |-> Slice(arrs[i], from, to)]

\* One step of the generator BatchGenerator._batches(): the batch it yields
\* next, or its end. `taken` items were taken from the iterator `array` and
\* `count` batches were yielded so far. A batch is a "row" (one item of each
\* array), "columns" (one list per array) or "items" (items of the one array).
_batches(arrs, n, bs, zipped, taken, count) ==
    IF bs = 1
    THEN IF taken < n
         THEN [stop |-> FALSE, shape |-> "row", val |-> Row(arrs, taken),
               taken |-> taken + 1]
         ELSE [stop |-> TRUE, shape |-> "none", val |-> <<>>, taken |-> taken]
    ELSE IF count < CeilDiv(n, bs)
         THEN LET to == Min(taken + bs, n)
              IN IF zipped
                 THEN [stop |-> FALSE, shape |-> "columns",
                       val |-> Columns(arrs, taken, to), taken |-> to]
                 ELSE [stop |-> FALSE, shape |-> "items",
                       val |-> Slice(arrs[1], taken, to), taken |-> to]
         ELSE [stop |-> TRUE, shape |-> "none", val |-> <<>>, taken |-> taken]

NoBatch == [container |-> "none", shape |-> "none", val |-> <<>>]

\* BatchGenerator.flow(): a new generator object, not started
BGFlow ==
    /\ bg_phase \in {"ready", "flowing", "done"}
    /\ bg_phase' = "flowing"
    /\ bg_taken' = 0
    /\ bg_count' = 0
    /\ bg_signal' = "none"
    /\ bg_ret' = NoBatch
    /\ UNCHANGED <<bg_args, bg_error, bg_arrays, bg_array_size, bg_batch_size,
                   bg_np_arrays, bg_zipped>>
    /\ UNCHANGED <<batchVars, legacyVars, pipeVars, filesVars, fiVars, sysVars>>

\* next() on the generator of flow(): the next batch of _batches(), through
\* np.asarray when np_arrays is set.
BGNext ==
    /\ bg_phase \in {"flowing", "done"}
    /\ LET r == _batches(bg_arrays, bg_array_size, bg_batch_size, bg_zipped,
                         bg_taken, bg_count)
       IN IF bg_phase = "done" \/ r.stop
          THEN /\ bg_phase' = "done"
               /\ bg_signal' = "StopIteration"
               /\ UNCHANGED <<bg_taken, bg_count, bg_ret>>
          ELSE /\ bg_phase' = "flowing"
               /\ bg_signal' = "returned"
               /\ bg_taken' = r.taken
               /\ bg_count' = bg_count + 1
               /\ bg_ret' = [container |-> IF bg_np_arrays THEN "ndarray" ELSE "list",
                             shape |-> r.shape, val |-> r.val]
    /\ UNCHANGED <<bg_args, bg_error, bg_arrays, bg_array_size, bg_batch_size,
                   bg_np_arrays, bg_zipped>>
    /\ UNCHANGED <<batchVars, legacyVars, pipeVars, filesVars, fiVars, sysVars>>

InitBG ==
    /\ bg_phase = "new"
    /\ bg_args = [lens |-> <<>>, batch_size |-> 0, np_arrays |-> FALSE]
    /\ bg_error = "none"
    /\ bg_arrays = <<>>
    /\ bg_array_size = 0
    /\ bg_batch_size = 0
    /\ bg_np_arrays = FALSE
    /\ bg_zipped = FALSE
    /\ bg_taken = 0
    /\ bg_count = 0
    /\ bg_signal = "none"
    /\ bg_ret = NoBatch

\* ------------------------------------------------------------------------
\* Specifications
\* ------------------------------------------------------------------------
\* No iterator constructed yet, one idle pipeline.
Init ==
    /\ InitBatch /\ InitLegacy /\ InitPipeIdle /\ NoStream({})
    /\ InitFI /\ NoSysPath(<<>>) /\ InitBG

\* No iterator constructed yet, any freshly constructed pipeline.
InitWithPipe ==
    /\ InitBatch /\ InitLegacy /\ InitPipe /\ NoStream({})
    /\ InitFI /\ NoSysPath(<<>>) /\ InitBG

NextBatch == Construct \/ BatchNext \/ BatchIter
SpecBatch == Init /\ [][NextBatch]_vars

NextCtor == Construct \/ LegacyConstruct
SpecCtor == Init /\ [][NextCtor]_vars

NextLegacy == LegacyConstruct \/ LegacyNext
SpecLegacy == Init /\ [][NextLegacy]_vars

NextPipe == PipeNext
SpecPipe == InitWithPipe /\ [][NextPipe]_vars

\* No iterator constructed yet, a freshly constructed pipeline of the
\* narrower choice.
InitWithSmallPipe ==
    /\ InitBatch /\ InitLegacy /\ InitPipeSmall /\ NoStream({})
    /\ InitFI /\ NoSysPath(<<>>) /\ InitBG

NextPipeCfg == PipeNext \/ PipeConfigure
SpecPipeCfg == InitWithSmallPipe /\ [][NextPipeCfg]_vars

NextPipeAdd == PipeNext \/ PipeAdd
SpecPipeAdd == InitWithSmallPipe /\ [][NextPipeAdd]_vars

\* Any directory, no stream created yet.
InitWithDir ==
    /\ InitBatch /\ InitLegacy /\ InitPipeIdle
    /\ \E dir \in SUBSET AllFiles : NoStream(dir)
    /\ InitFI /\ NoSysPath(<<>>) /\ InitBG

NextFiles == StreamConstruct \/ StreamCall \/ LegacyNext \/ DirAdd \/ DirRemove
SpecFiles == InitWithDir /\ [][NextFiles]_vars

NextFilesIter == FIConstruct \/ FINext \/ FIIter
SpecFilesIter == InitWithDir /\ [][NextFilesIter]_vars

\* Any starting sys.path, no SysPath obtained yet.
InitWithSysPath ==
    /\ InitBatch /\ InitLegacy /\ InitPipeIdle /\ NoStream({})
    /\ InitFI /\ InitBG
    /\ \E path \in StartPaths : NoSysPath(path)

NextSysPath == SysPathNew \/ SysExtend \/ SysRestore \/ ExtendSearchPath
SpecSysPath == InitWithSysPath /\ [][NextSysPath]_vars

NextBoth == Construct \/ BatchNext \/ LegacyConstructSame \/ LegacyNext
SpecBoth == Init /\ [][NextBoth]_vars

NextBatchGen == BGConstruct \/ BGFlow \/ BGNext
SpecBatchGen == Init /\ [][NextBatchGen]_vars

\* ------------------------------------------------------------------------
\* Properties of GeneratorPipeline (under SpecPipe)
\* ------------------------------------------------------------------------

\* The value an item has after the stages from i on, None once a stage
\* produced the sentinel.
RECURSIVE ThroughStages(_, _, _)
ThroughStages(i, kinds, value) ==
    IF i > Len(kinds) \/ value = None
    THEN value
    ELSE ThroughStages(i + 1, kinds, StageFn(kinds[i], value))

\* Final-stage values of the first n source items 1..n that survive.
RECURSIVE Survivors(_, _)
Survivors(n, kinds) ==
    IF n = 0
    THEN <<>>
    ELSE LET v == ThroughStages(1, kinds, n)
         IN IF v = None
            THEN Survivors(n - 1, kinds)
            ELSE Append(Survivors(n - 1, kinds), v)

\* Number of items numbers(start=1, limit=lim) yields, for lim # None.
NumbersCount(lim) == IF lim - 1 > 1 THEN lim - 1 ELSE 1

EvensThenPrimes == <<"filter_evens", "primes_only">>

\* C1: driven by next() only, the outputs are, in source order, the
\* final-stage values of exactly the pulled source items for which no stage
\* produced None; from 1 with even-filter and prime-filter the first five are
\* 1, 3, 5, 7, 11 and a source ending before 15 drains to 1, 3, 5, 7, 11, 13.
C1_OutputsAreSurvivors ==
    /\ outputs = Survivors(pulled, steps)
    /\ pipe_signal = "returned" => pipe_ret = outputs[Len(outputs)]
    /\ (steps = EvensThenPrimes /\ Len(outputs) >= 5)
          => SubSeq(outputs, 1, 5) = <<1, 3, 5, 7, 11>>
    /\ (steps = EvensThenPrimes /\ limit = 15 /\ max_iters = None
        /\ pipe_signal = "StopIteration")
          => outputs = <<1, 3, 5, 7, 11, 13>>

C1_Witness ==
    /\ steps = EvensThenPrimes /\ limit = 15 /\ max_iters = None
    /\ pipe_signal = "StopIteration"
    /\ outputs = <<1, 3, 5, 7, 11, 13>>
    /\ pulled = 14

\* C2: with max_iters = m at most m items are pulled from the source, and on
\* exhaustion the outputs are exactly the survivors among the first m source
\* items (all of them when the source is shorter); m = 5 over the counting
\* source with even-filter and prime-filter gives 1, 3, 5.
C2_CapLimitsPulls ==
    max_iters # None =>
        /\ pulled <= max_iters
        /\ sliced <= max_iters
        /\ source.at = "fresh" \/ source.start <= max_iters + 1
        /\ pipe_signal = "StopIteration" =>
              /\ pulled = IF limit = None THEN max_iters
                          ELSE Min(max_iters, NumbersCount(limit))
              /\ outputs = Survivors(pulled, steps)
        /\ (steps = EvensThenPrimes /\ limit = None /\ max_iters = 5
            /\ pipe_signal = "StopIteration")
              => outputs = <<1, 3, 5>>

C2_Witness ==
    /\ steps = EvensThenPrimes /\ limit = None /\ max_iters = 5
    /\ pipe_signal = "StopIteration"
    /\ outputs = <<1, 3, 5>>
    /\ pulled = 5

\* ------------------------------------------------------------------------
\* Properties of BatchArrayIterator (under SpecBatch and SpecCtor)
\* ------------------------------------------------------------------------

\* Component i of a value returned by next().
Component(r, i) == IF r.bare THEN r.val ELSE r.val[i]

\* Concatenation of component i of the returned values rs[from..to].
RECURSIVE Concat(_, _, _, _)
Concat(rs, i, from, to) ==
    IF from > to
    THEN <<>>
    ELSE Concat(rs, i, from, to - 1) \o Component(rs[to], i)

NumArrays == Len(arrays)
SeqLen == Len(arrays[1])

\* C3: a finite iterator over sequences of length n yields exactly
\* ceil(n / batch_size) batches before signalling exhaustion, and their
\* concatenation in order is the original sequence.
C3_FiniteRoundTrip ==
    (phase = "ready" /\ ~infinite) =>
        /\ Len(emitted) * batch_size < SeqLen + batch_size
        /\ signal = "StopIteration" =>
              /\ Len(emitted) = (SeqLen + batch_size - 1) \div batch_size
              /\ Len(emitted) = n_batches
              /\ \A i \in 1..NumArrays :
                    Concat(emitted, i, 1, Len(emitted)) = arrays[i]

C3_Witness ==
    /\ phase = "ready" /\ ~infinite /\ signal = "StopIteration"
    /\ SeqLen = 4 /\ batch_size = 3 /\ Len(emitted) = 2

\* C4: with infinite and same_size_batches every batch returned by next()
\* has length exactly batch_size, also when batch_size > n.
C4_EveryBatchFull ==
    (phase = "ready" /\ infinite /\ same_size_batches /\ signal = "returned")
        => \A i \in 1..NumArrays : Len(Component(ret, i)) = batch_size

C6_InfinitePasses ==
    (phase = "ready" /\ infinite /\ ~same_size_batches) =>
        /\ signal # "StopIteration"
        /\ \A k \in 1..MaxCalls :
              k * n_batches <= Len(emitted) =>
                 \A i \in 1..NumArrays :
                    Concat(emitted, i, (k - 1) * n_batches + 1, k * n_batches)
                       = arrays[i]

C6_Witness ==
    /\ phase = "ready" /\ infinite /\ ~same_size_batches
    /\ SeqLen = 4 /\ batch_size = 3 /\ n_batches = 2
    /\ Len(emitted) = 6 /\ epoch_index = 2

\* C7: constructing with infinite=False and same_size_batches=True fails
\* with ValueError for every input, the empty one included, and creates no
\* instance; so for both BatchArrayIterator classes.
C7_IncompatibleConfigFails ==
    /\ (phase # "new" /\ ~ctor_args.infinite /\ ctor_args.same_size_batches)
          => /\ phase = "failed"
             /\ ctor_error = "ValueError"
             /\ arrays = <<>> /\ batch_size = 0
    /\ (legacy_phase # "new" /\ ~legacy_args.infinite
        /\ legacy_args.same_size_batches)
          => /\ legacy_phase = "failed"
             /\ legacy_error = "ValueError"

C7_Witness ==
    /\ phase = "failed" /\ ctor_args.lens = <<0>>
    /\ ~ctor_args.infinite /\ ctor_args.same_size_batches
    /\ legacy_phase = "failed" /\ legacy_args.len = 0
    /\ ~legacy_args.infinite /\ legacy_args.same_size_batches

UnequalLengths(lens) == \E i \in DOMAIN lens : lens[i] # lens[1]

\* C8: two or more sequences of unequal lengths fail at construction with
\* ValueError, so that no retrieval ever runs on them; with equal lengths
\* (and a compatible configuration) construction succeeds.
C8_MismatchFailsAtConstruction ==
    phase # "new" =>
        /\ UnequalLengths(ctor_args.lens)
              => /\ phase = "failed" /\ ctor_error = "ValueError"
                 /\ calls = 0 /\ signal = "none"
        /\ (~UnequalLengths(ctor_args.lens)
            /\ (ctor_args.infinite \/ ~ctor_args.same_size_batches))
              => phase = "ready" /\ ctor_error = "none"
        /\ phase = "ready"
              => \A i \in 1..NumArrays : Len(arrays[i]) = SeqLen

C8_Witness ==
    /\ phase = "failed" /\ ctor_error = "ValueError"
    /\ ctor_args.lens = <<1, 2>>
    /\ ctor_args.infinite /\ ~ctor_args.same_size_batches

\* C9: over k >= 2 sequences next() returns a k-tuple whose i-th component
\* is the slice of the i-th sequence over [b*batch_size, (b+1)*batch_size),
\* b the batch index of the call, in every pass; over one sequence it
\* returns the bare slice.
C9_AlignedSlices ==
    (phase = "ready" /\ signal = "returned") =>
        LET b == batch_index - 1
            size == IF SeqLen - b * batch_size < batch_size
                    THEN SeqLen - b * batch_size ELSE batch_size
        IN /\ ret.bare <=> NumArrays = 1
           /\ ~ret.bare => Len(ret.val) = NumArrays
           /\ \A i \in 1..NumArrays :
                 /\ Len(Component(ret, i)) = (IF size < 0 THEN 0 ELSE size)
                 /\ \A q \in 1..Len(Component(ret, i)) :
                       Component(ret, i)[q] = arrays[i][b * batch_size + q]

C9_Witness ==
    /\ phase = "ready" /\ signal = "returned" /\ NumArrays = 2
    /\ ~ret.bare /\ batch_index = 2 /\ epoch_index = 1
    /\ ret.val = <<<<13, 14>>, <<23, 24>>>>

\* C10: once a finite iterator has signalled exhaustion, a further next()
\* signals exhaustion again, returns no batch and leaves batch_index and
\* epoch_index unchanged.
C10_ExhaustionIsTerminal ==
    [][(phase = "ready" /\ ~infinite /\ signal = "StopIteration"
        /\ calls' = calls + 1)
          => /\ signal' = "StopIteration"
             /\ emitted' = emitted /\ ret' = ret
             /\ batch_index' = batch_index
             /\ epoch_index' = epoch_index]_vars

C10_Witness ==
    /\ phase = "ready" /\ ~infinite /\ signal = "StopIteration"
    /\ stops >= 2 /\ SeqLen = 3 /\ Len(emitted) = 2

\* C11 as stated: in infinite mode epoch_index is, in every state, the number
\* of completed full passes of n_batches batches.
C11_EpochCountsCompletedPasses ==
    (phase = "ready" /\ infinite /\ n_batches >= 1)
        => epoch_index = Len(emitted) \div n_batches

\* C11 amended: the cursor is reset and the epoch counted by the next() call
\* that follows a completed pass, not by the call that completes it; so
\* epoch_index is the number of passes completed before the batch returned
\* last (0 before the first batch), and with n_batches = 0 every next()
\* counts an epoch.
C11_EpochOfLastBatch ==
    (phase = "ready" /\ infinite) =>
        /\ n_batches >= 1 =>
              /\ epoch_index = IF emitted = <<>> THEN 0
                               ELSE (Len(emitted) - 1) \div n_batches
              /\ batch_index = IF emitted = <<>> THEN 0
                               ELSE ((Len(emitted) - 1) % n_batches) + 1
        /\ n_batches = 0 => epoch_index = Len(emitted)

C11_Witness ==
    /\ phase = "ready" /\ infinite /\ n_batches = 2
    /\ Len(emitted) = 4 /\ epoch_index = 1 /\ batch_index = 2

\* C12: n_batches is floor(n / batch_size) with same_size_batches and
\* ceil(n / batch_size) without, of the n and batch_size given to the
\* constructor, whatever next()/iter() calls have been made since.
C12_BatchCountFixed ==
    phase = "ready" =>
        LET n == ctor_args.lens[1]
            bs == ctor_args.batch_size
        IN /\ ctor_args.same_size_batches =>
                 /\ n_batches * bs <= n
                 /\ n < (n_batches + 1) * bs
           /\ ~ctor_args.same_size_batches =>
                 /\ n <= n_batches * bs
                 /\ (n_batches - 1) * bs < n \/ (n = 0 /\ n_batches = 0)

C12_Witness ==
    /\ phase = "ready" /\ same_size_batches /\ infinite
    /\ ctor_args.lens[1] = 4 /\ ctor_args.batch_size = 3 /\ n_batches = 1
    /\ calls >= 3 /\ last_op = "iter"

\* The items of a batch.
Items(batch) == {batch[q] : q \in 1..Len(batch)}

\* C13: with infinite and same_size_batches and n not divisible by
\* batch_size, the trailing n mod batch_size items, which n_batches does not
\* count, are emitted in the first batch of the next cycle (stated for the
\* iterator FilesStream creates; n >= batch_size).
C13_TrailingItemsEmitted ==
    LET n == Len(legacy_array)
        bs == legacy_args.batch_size
    IN (/\ legacy_phase = "ready"
        /\ legacy_args.infinite /\ legacy_args.same_size_batches
        /\ n % bs # 0 /\ legacy_n_batches >= 1
        /\ Len(legacy_emitted) > legacy_n_batches)
          => \A q \in (legacy_n_batches * bs + 1)..n :
                legacy_array[q] \in Items(legacy_emitted[legacy_n_batches + 1])

\* ------------------------------------------------------------------------
\* Properties of GeneratorPipeline: sentinel, configure(), add(), failures
\* ------------------------------------------------------------------------

\* The source items among the first n that no stage before stage i turned
\* into the sentinel (i = Len(kinds) + 1: that no stage did).
PassedBefore(i, kinds, n) ==
    {x \in 1..n : ThroughStages(1, SubSeq(kinds, 1, i - 1), x) # None}

\* C14 (driven by next() only): an item for which a stage produced the
\* sentinel is received by no later stage, so every stage has received
\* exactly the items that passed all stages before it; such an item gives no
\* output, and the same next() call goes on to the next source item, so that
\* every call ends with an output or with exhaustion.
C14_SentinelSkipsLaterStages ==
    /\ \A i \in 1..Len(steps) :
          /\ stage_state[i].seen = Cardinality(PassedBefore(i, steps, pulled))
          /\ stage_state[i].at = "awaiting"
    /\ Len(outputs) = Cardinality(PassedBefore(Len(steps) + 1, steps, pulled))
    /\ pipe_signal \in {"none", "returned", "StopIteration"}
    /\ pipe_signal = "returned" => pulled \in PassedBefore(Len(steps) + 1, steps, pulled)
    /\ Len(outputs) + pipe_stops = pipe_calls

C14_Witness ==
    /\ steps = EvensThenPrimes /\ pipe_signal = "returned"
    /\ pulled = 11 /\ pipe_calls = 5 /\ outputs = <<1, 3, 5, 7, 11>>
    /\ stage_state[1].seen = 11 /\ stage_state[2].seen = 6

\* C15: after configure(), called in any state, every stage is in its
\* "awaiting input" state and the call has completed.
C15_ConfigureReinitializes ==
    pipe_op = "configure" =>
        /\ pipe_signal = "done"
        /\ \A i \in 1..Len(steps) : stage_state[i].at = "awaiting"

\* C16: after add(stage), a later next() delivers an item that passed the
\* earlier stages to the new stage, which is ready to receive it, and
\* returns the new stage's non-sentinel result.
C16_AddedStageReady ==
    (pipe_adds >= 1 /\ pipe_op = "next") =>
        /\ pipe_signal \in {"returned", "StopIteration"}
        /\ pipe_signal = "returned" =>
              /\ pipe_ret # None
              /\ pipe_ret = ThroughStages(1, steps, pulled)
        /\ stage_state[Len(steps)].at = "awaiting"

\* C17 as stated: no item is pulled from the source that takes the number
\* pulled since construction above the configured max_iters, configure()
\* calls included.
C17_CapOverLifetime ==
    [][(pulled' > pulled /\ max_iters' # None) => pulled' <= max_iters']_vars

\* C18: when a stage raises on an item it is sent, next() lets the exception
\* through: the caller gets that exception and no output, the stages before
\* the failing one keep holding their result (no reset is sent), the failing
\* stage and the later ones are as they were.
C18_StageFailurePropagates ==
    [][(pipe_calls' = pipe_calls + 1 /\ pipe_failed_in' = "send")
          => /\ outputs' = outputs
             /\ pipe_ret' = None
             /\ \E j \in 1..Len(steps) :
                   /\ stage_state[j].at \in {"fresh", "dead"}
                   /\ pipe_signal' = (IF stage_state[j].at = "fresh"
                                      THEN "TypeError" ELSE "StopIteration")
                   /\ \A i \in 1..(j - 1) : stage_state'[i].at = "holding"
                   /\ \A i \in j..Len(steps) : stage_state'[i] = stage_state[i]
                   /\ Len(need_reset') >= j - 1
                   /\ SubSeq(need_reset', Len(need_reset') - j + 2,
                             Len(need_reset')) = [i \in 1..(j - 1) |-> i]]_vars

C18_Witness ==
    /\ pipe_op = "next" /\ pipe_failed_in = "send"
    /\ pipe_signal = "TypeError" /\ Len(steps) = 3
    /\ stage_state[1].at = "holding" /\ stage_state[2].at = "holding"
    /\ stage_state[3].at = "fresh" /\ need_reset = <<1, 2>>
    /\ outputs = <<>>

\* C19: next() signals exhaustion only when the source is exhausted or
\* max_iters items have been pulled.
C19_ExhaustionOnlyFromSource ==
    (pipe_op = "next" /\ pipe_signal = "StopIteration") =>
        \/ source.at = "done"
        \/ max_iters # None /\ sliced >= max_iters

\* ------------------------------------------------------------------------
\* Properties of FilesStream (under SpecFiles)
\* ------------------------------------------------------------------------

\* How many times file f occurs in the batches bs.
RECURSIVE Occurrences(_, _)
Occurrences(f, bs) ==
    IF bs = <<>>
    THEN 0
    ELSE Cardinality({q \in 1..Len(bs[1]) : bs[1][q] = f})
         + Occurrences(f, SubSeq(bs, 2, Len(bs)))

\* The files of the directory that matched the pattern when the stream was
\* created.
MatchedAtCreation ==
    {f \in stream_dir : \E k \in 1..Len(stream_pattern) : f.ext = stream_pattern[k]}

\* C20: a finite traversal of the stream yields every file that matched the
\* pattern when the stream was created exactly once and nothing else,
\* whatever was added to or removed from the directory since; batch_size = 1
\* over a.txt, b.txt, c.txt gives three singleton batches.
C20_EveryMatchedFileOnce ==
    (legacy_phase = "ready" /\ ~legacy_args.infinite) =>
        /\ \A f \in AllFiles \ MatchedAtCreation :
              Occurrences(f, legacy_emitted) = 0
        /\ \A f \in MatchedAtCreation :
              /\ Occurrences(f, legacy_emitted) <= 1
              /\ legacy_signal = "StopIteration"
                    => Occurrences(f, legacy_emitted) = 1
        /\ (/\ legacy_signal = "StopIteration"
            /\ stream_batch_size = 1
            /\ stream_pattern = <<"txt">>
            /\ stream_dir = {File("a", "txt"), File("b", "txt"), File("c", "txt")})
              => /\ Len(legacy_emitted) = 3
                 /\ \A b \in 1..3 : Len(legacy_emitted[b]) = 1


\* C21: FilesIterator.n_batches is the number of batches needed to iterate
\* all the discovered files: the n_batches of the BatchArrayIterator it
\* delegates to, for every batch_size.
C21_NBatchesOfDelegate ==
    fi_phase = "ready" => FINBatches = fi_iter.n


\* sys.path and original_sys_path just before the i-th call
PathBefore(i) == IF i = 1 THEN sys_start ELSE sys_trace[i - 1].path
SavedBefore(i) == IF i = 1 THEN NotSaved ELSE sys_trace[i - 1].saved

IsExtend(op) == op \in {"extend", "extend_search_path"}
Least(S) == CHOOSE x \in S : \A y \in S : x <= y

\* The extend calls made before the i-th call and after the last restore
\* before it.
ExtendsSince(i) ==
    {j \in 1..(i - 1) :
        /\ IsExtend(sys_trace[j].op)
        /\ \A k \in (j + 1)..(i - 1) : sys_trace[k].op # "restore"}

\* Those of them that modified sys.path.
ModifyingExtendsSince(i) ==
    {j \in ExtendsSince(i) : sys_trace[j].path # PathBefore(j)}

C23_OneExtendBeforeRestore ==
    \A i \in DOMAIN sys_trace :
        LET since == ModifyingExtendsSince(i)
        IN since # {} =>
              /\ (IsExtend(sys_trace[i].op) =>
                     /\ sys_trace[i].path = PathBefore(i)
                     /\ sys_trace[i].saved = SavedBefore(i))
              /\ (sys_trace[i].op = "restore" =>
                     sys_trace[i].path = PathBefore(Least(since)))


\* C24: for k >= 2 equal-length arrays and every batch_size >= 1, each batch
\* of BatchGenerator.flow() is a list of k lists, the i-th holding the
\* batch's consecutive elements of the i-th array, aligned across arrays.
C24_BatchIsListOfAlignedLists ==
    (bg_signal = "returned" /\ Len(bg_arrays) >= 2 /\ ~bg_np_arrays) =>
        /\ bg_ret.container = "list"
        /\ bg_ret.shape = "columns"
        /\ Len(bg_ret.val) = Len(bg_arrays)
        /\ \A i \in 1..Len(bg_arrays) :
              bg_ret.val[i] = Slice(bg_arrays[i], (bg_count - 1) * bg_batch_size,
                                    bg_count * bg_batch_size)


\* How often x occurs in the sequence seq.
Times(x, seq) == Cardinality({j \in DOMAIN seq : seq[j] = x})

\* The stages that produced a non-sentinel value for the logged item l:
\* all the stages it was sent to, but the last one when send() returned None.
Producers(l) ==
    {l.sent[j] : j \in {k \in DOMAIN l.sent : k < Len(l.sent) \/ l.out # None}}

\* The stages the logged item l was sent to.
Receivers(l) == {l.sent[j] : j \in DOMAIN l.sent}

C26_StagesAwaitingBetweenCalls ==
    /\ need_reset = <<>>
    /\ \A i \in DOMAIN stage_state : stage_state[i].at = "awaiting"
    /\ \A n \in DOMAIN pipe_trace :
          \A i \in DOMAIN pipe_trace[n].st : pipe_trace[n].st[i].at = "awaiting"

\* Two stages, a call that returned a value and a later one that signalled
\* exhaustion.
C26_Witness ==
    /\ Len(steps) = 2
    /\ pipe_signal = "StopIteration"
    /\ \E n \in DOMAIN pipe_trace : pipe_trace[n].signal = "returned"
    /\ \E n \in DOMAIN item_log : item_log[n].out = None

\* The items a source with the limit lim hands out under the cap.
SourceTotal(lim, cap) ==
    IF lim = None THEN cap
    ELSE IF cap = None THEN NumbersCount(lim)
    ELSE Min(NumbersCount(lim), cap)

\* A next() call made now comes to an end: it returns or raises.
Completes ==
    next([source |-> source, sliced |-> sliced, limit |-> limit,
          max_iters |-> max_iters, steps |-> steps, st |-> stage_state,
          need |-> need_reset, pulled |-> pulled, signal |-> "none",
          ret |-> None, where |-> "none", log |-> item_log]).signal # "cut"

\* C27: if the source is finite or max_iters is set, every next() call
\* terminates, returning a non-sentinel value or signalling exhaustion,
\* after pulling at most the remaining source items; once a call signalled
\* exhaustion, every later one does so too, sending nothing to any stage.
C27_TerminatesAndStaysExhausted ==
    (limit # None \/ max_iters # None) =>
        /\ (SourceTotal(limit, max_iters) <= MaxSrc /\ pipe_calls < MaxPipeCalls
               => Completes)
        /\ \A n \in DOMAIN pipe_trace :
              /\ pipe_trace[n].signal \in {"returned", "StopIteration"}
              /\ pipe_trace[n].signal = "returned" => pipe_trace[n].ret # None
              /\ pipe_trace[n].pulled <= SourceTotal(limit, max_iters)
              /\ (n > 1 /\ pipe_trace[n - 1].signal = "StopIteration") =>
                    /\ pipe_trace[n].signal = "StopIteration"
                    /\ pipe_trace[n].pulled = pipe_trace[n - 1].pulled
                    /\ pipe_trace[n].st = pipe_trace[n - 1].st
                    /\ pipe_trace[n].logged = pipe_trace[n - 1].logged

\* A capped pipeline over the unbounded source that returned values, then
\* signalled exhaustion twice, having discarded items on the way.
C27_Witness ==
    /\ limit = None
    /\ max_iters # None
    /\ Len(steps) = 2
    /\ pipe_stops >= 2
    /\ outputs # <<>>
    /\ pulled > Len(outputs)
    /\ pulled = max_iters


\* C28: iter() on a BatchArrayIterator in any state resets batch_index and
\* epoch_index to 0, so that the next next() returns the first batch again
\* and a finite iterator can be fully traversed again.
C28_IterRestarts ==
    [][/\ (last_op' = "iter" => batch_index' = 0 /\ epoch_index' = 0)
       /\ (last_op = "iter" /\ last_op' = "next" /\ (n_batches > 0 \/ infinite))
             => /\ signal' = "returned"
                /\ ret' = Batches(arrays, 0, batch_size)
       /\ (~infinite /\ last_op' = "next" /\ signal' = "StopIteration"
           /\ stops' = 1)
             => /\ Len(emitted') = n_batches
                /\ \A i \in 1..NumArrays :
                      Concat(emitted', i, 1, Len(emitted')) = arrays[i]]_vars

\* A finite iterator traversed to exhaustion again, after an iter() that
\* followed earlier next() calls.
C28_Witness ==
    /\ phase = "ready" /\ ~infinite /\ signal = "StopIteration"
    /\ SeqLen = 4 /\ batch_size = 3 /\ Len(emitted) = 2
    /\ calls > Len(emitted) + stops


\* C29: under any sequence of iter() and next() calls a FilesIterator over a
\* fixed file list behaves exactly like a BatchArrayIterator constructed
\* directly over that list with the same configuration: same batches, same
\* exhaustion points, same batch_index and epoch_index after every call.
C29_BehavesLikeDirectIterator ==
    fi_phase = "ready" =>
        /\ fi_signal = direct.signal
        /\ fi_ret = direct.ret
        /\ FIBatchIndex = direct.it.batch_index
        /\ FIEpochIndex = direct.it.epoch_index


\* C30: for a single sequence and equal batch_size, infinite and
\* same_size_batches, the legacy swissknife.files.BatchArrayIterator and
\* swissknife.iterators.arrays.BatchArrayIterator report the same n_batches
\* and, driven by the same number of __next__ calls, at every step either
\* both signal exhaustion or both return the same elements in the same order.
C30_LegacyAgreesWithNew ==
    (phase = "ready" /\ legacy_phase = "ready") =>
        /\ n_batches = legacy_n_batches
        /\ \A k \in 1..Min(Len(emitted), Len(legacy_emitted)) :
              emitted[k].val = legacy_emitted[k]
        /\ calls = legacy_calls =>
              /\ signal = legacy_signal
              /\ Len(emitted) = Len(legacy_emitted)

====
